---- MODULE Spec2Model ----
(***************************************************************************)
(* The interaction/network correlator of the manual capture workflow       *)
(* (InteractionLogger in src/workflows/manual_workflow.py) and the session *)
(* driver that feeds it (manual_workflow's event handlers).                *)
(*                                                                         *)
(* Time is counted in ticks of half a second, so the 1.0 s look-back       *)
(* window is 2 ticks and the 2 s forward window is 4 ticks.                *)
(*                                                                         *)
(* Objects live in heaps: inter[i] is the i-th Interaction constructed,    *)
(* reqs[r] the r-th LoggedRequest; a request's id (uuid4) is its index.    *)
(***************************************************************************)
EXTENDS Integers, Sequences, FiniteSets, TLC

\* ---------------------------------------------------------------- bounds
\* Number of calls of the correlator in one run of Spec.
MaxCalls == 4
\* Number of driver events in one run of SessionSpec.
MaxEvents == 3
\* Number of Pages of the Site handed to automated_workflow.
MaxPages == 3
\* Number of Pages of the Site handed to clone_workflow.
MaxClonePages == 2
\* Last reading of the wall clock.
MaxInjectPages == 2

MaxParents == 2

MaxExtra == 2

MaxPasses == 2

MaxSitePages == 2

MaxNow == 4

\* ------------------------------------------------------ program constants
\* req.timestamp > timestamp - 1.0, in ticks of 0.5 s
LOOKBACK_WINDOW == 2
\* self.interactions[-1].timestamp > timestamp - 2, in ticks of 0.5 s
FORWARD_WINDOW == 4
\* time.time() - logger.interactions[-1].timestamp < 2, in ticks of 0.5 s
DIRECT_WINDOW == 4

Methods == {"POST", "GET"}
\* The page the session starts on and the others the user can navigate to.
START_URL == "https://site/"
PageUrls == <<START_URL, "https://site/cart", "https://site/store",
              "https://site/checkout", "https://site/orders">>
Urls == {PageUrls[1], PageUrls[2]}
AllListeners == {"framenavigated", "request", "response"}
\* Timestamps a caller may put on an Interaction or a LoggedRequest.
Timestamps == 0..MaxNow

VARIABLES
    inter,                  \* heap of Interaction objects
    reqs,                   \* heap of LoggedRequest objects
    interactions,           \* InteractionLogger.interactions (heap indices)
    request_backlog,        \* InteractionLogger.request_backlog (request ids)
    request_to_interaction, \* InteractionLogger.request_to_interaction
    playwright_to_logged,   \* InteractionLogger.playwright_to_logged
    nresp,                  \* LoggedResponse objects constructed so far
    raised,                 \* an exception left a correlator operation
    now,                    \* the wall clock, time.time()
    raws,                   \* the driver's raw request objects (session)
    ready,                  \* the event loop's queue of handler tasks (session)
    pending,                \* gesture handlers suspended at an await (session)
    ncalls,                 \* calls / events so far
    call,                   \* the operation that produced this state
    unsurfaced,             \* history: responses built while their request had no interaction
    site,                   \* Site.pages: URL -> Page (heap index)
    pageobjs,               \* heap of Page objects, in order of construction
    current_page,           \* manual_workflow's current_page
    listeners,              \* event kinds with a registered listener
    session,                \* manual_workflow: "waiting" or "returned"
    json,                   \* what main wrote with site.to_json
    request_failed,         \* history: raw requests whose on_request task raised
    replay,                 \* automated_workflow's loop over the pages
    clone,                  \* clone_workflow's stages over the pages
    run,                    \* main's position and what it has done
    inject,                 \* enhanced_injection_workflow's loops over the pages
    doc,                    \* the document truncate_repeated_elements works on
    dirs                    \* URLs whose page directories are derived

vars == <<inter, reqs, interactions, request_backlog, request_to_interaction,
          playwright_to_logged, nresp, raised, now, raws, ready, pending,
          ncalls, call, unsurfaced, site, pageobjs, current_page, listeners,
          session, json, request_failed, replay, clone, run, inject, doc,
          dirs>>

captureVars == <<inter, reqs, interactions, request_backlog,
                 request_to_interaction, playwright_to_logged, nresp, raised,
                 now, raws, ready, pending, ncalls, call, unsurfaced>>
sessionVars == <<site, pageobjs, current_page, listeners, session, json,
                 request_failed>>
toolVars == <<run, inject, doc, dirs>>
batchVars == <<replay, clone, toolVars>>

\* ------------------------------------------------------------- helpers
Range(s) == {s[k] : k \in DOMAIN s}

Put(f, k, v) == [x \in (DOMAIN f) \cup {k} |-> IF x = k THEN v ELSE f[x]]

\* list.remove(x): drops the first occurrence of x
RemoveFirst(s, x) ==
    LET k == CHOOSE j \in DOMAIN s : s[j] = x /\ \A m \in 1..(j-1) : s[m] # x
    IN  [m \in 1..(Len(s)-1) |-> IF m < k THEN s[m] ELSE s[m+1]]

\* The correlator's state together with the heaps its operations touch.
Logger ==
    [inter |-> inter, reqs |-> reqs, interactions |-> interactions,
     request_backlog |-> request_backlog,
     request_to_interaction |-> request_to_interaction,
     playwright_to_logged |-> playwright_to_logged,
     nresp |-> nresp, raised |-> raised]

SetLogger(S) ==
    /\ inter' = S.inter
    /\ reqs' = S.reqs
    /\ interactions' = S.interactions
    /\ request_backlog' = S.request_backlog
    /\ request_to_interaction' = S.request_to_interaction
    /\ playwright_to_logged' = S.playwright_to_logged
    /\ nresp' = S.nresp
    /\ raised' = S.raised

\* --------------------------------------------------------- data_models.py
\* Interaction.__init__
NewInteraction(S, ts) ==
    [S EXCEPT !.inter = Append(@, [timestamp |-> ts, requests |-> <<>>,
                                   responses |-> <<>>,
                                   interaction_screenshot |-> 0])]

\* Interaction.set_interaction_screenshot: the path is known by the Page
\* whose dir it was built from (0 stands for None).
set_interaction_screenshot(S, i, screenshot_path) ==
    [S EXCEPT !.inter[i].interaction_screenshot = screenshot_path]

\* Interaction.add_request
Interaction_add_request(S, i, r) ==
    [S EXCEPT !.inter[i].requests = Append(@, r)]

\* Interaction.add_response
Interaction_add_response(S, i, resp) ==
    [S EXCEPT !.inter[i].responses = Append(@, resp)]

\* Page.__init__
NewPage(url) == [url |-> url, interactions |-> <<>>]

\* LoggedRequest.__init__: raw is the wrapped driver request
NewLoggedRequest(S, ts, m, raw) ==
    [S EXCEPT !.reqs = Append(@, [timestamp |-> ts, method |-> m, raw |-> raw])]

\* ------------------------------------------------------ InteractionLogger
\* The second loop of log_interaction: remove, attribute, append.
RECURSIVE SweepLoop(_, _, _)
SweepLoop(S, todo, i) ==
    IF todo = <<>> THEN S
    ELSE LET r == Head(todo) IN
         IF r \notin Range(S.request_backlog)
         THEN [S EXCEPT !.raised = TRUE]
         ELSE SweepLoop(
                Interaction_add_request(
                  [S EXCEPT !.request_backlog = RemoveFirst(@, r),
                            !.request_to_interaction = Put(@, r, i)], i, r),
                Tail(todo), i)

\* log_interaction with the look-back window of 0.5 s it had before.
log_interaction_half_window(S, i) ==
    LET S1 == [S EXCEPT !.interactions = Append(@, i)]
        timestamp == S.inter[i].timestamp
        backlog_to_process ==
            SelectSeq(S1.request_backlog,
                      LAMBDA r : /\ S.reqs[r].method = "POST"
                                 /\ S.reqs[r].timestamp > timestamp - 1)
    IN  SweepLoop(S1, backlog_to_process, i)

\* The second loop without self.request_backlog.remove(logged_request).
RECURSIVE SweepLoopKeep(_, _, _)
SweepLoopKeep(S, todo, i) ==
    IF todo = <<>> THEN S
    ELSE SweepLoopKeep(
           Interaction_add_request(
             [S EXCEPT !.request_to_interaction = Put(@, Head(todo), i)],
             i, Head(todo)),
           Tail(todo), i)

\* log_interaction that leaves the swept requests in the backlog.
log_interaction_no_remove(S, i) ==
    LET S1 == [S EXCEPT !.interactions = Append(@, i)]
        timestamp == S.inter[i].timestamp
        backlog_to_process ==
            SelectSeq(S1.request_backlog,
                      LAMBDA r : /\ S.reqs[r].method = "POST"
                                 /\ S.reqs[r].timestamp > timestamp - LOOKBACK_WINDOW)
    IN  SweepLoopKeep(S1, backlog_to_process, i)

\* log_interaction that clears what the sweep left in the backlog.
log_interaction_clear(S, i) ==
    LET S1 == [S EXCEPT !.interactions = Append(@, i)]
        timestamp == S.inter[i].timestamp
        backlog_to_process ==
            SelectSeq(S1.request_backlog,
                      LAMBDA r : /\ S.reqs[r].method = "POST"
                                 /\ S.reqs[r].timestamp > timestamp - LOOKBACK_WINDOW)
    IN  [SweepLoop(S1, backlog_to_process, i) EXCEPT !.request_backlog = <<>>]

log_interaction(S, i) ==
    LET S1 == [S EXCEPT !.interactions = Append(@, i)]
        timestamp == S.inter[i].timestamp
        backlog_to_process ==
            SelectSeq(S1.request_backlog,
                      LAMBDA r : /\ S.reqs[r].method = "POST"
                                 /\ S.reqs[r].timestamp > timestamp - LOOKBACK_WINDOW)
    IN  SweepLoop(S1, backlog_to_process, i)

\* add_request that also takes an interaction exactly 2 s old.
add_request_inclusive(S, r) ==
    LET S1 == [S EXCEPT !.playwright_to_logged = Put(@, S.reqs[r].raw, r)]
        timestamp == S.reqs[r].timestamp
    IN  IF /\ S1.interactions # <<>>
           /\ S1.inter[S1.interactions[Len(S1.interactions)]].timestamp
                >= timestamp - FORWARD_WINDOW
        THEN LET current_interaction == S1.interactions[Len(S1.interactions)]
             IN  [Interaction_add_request(S1, current_interaction, r)
                    EXCEPT !.request_to_interaction = Put(@, r, current_interaction)]
        ELSE [S1 EXCEPT !.request_backlog = Append(@, r)]

\* add_request that registers the raw request only when it attributes the
\* request, not when it puts it in the backlog.
add_request_register_attributed(S, r) ==
    LET timestamp == S.reqs[r].timestamp
    IN  IF /\ S.interactions # <<>>
           /\ S.inter[S.interactions[Len(S.interactions)]].timestamp
                > timestamp - FORWARD_WINDOW
        THEN LET current_interaction == S.interactions[Len(S.interactions)]
             IN  [Interaction_add_request(S, current_interaction, r)
                    EXCEPT !.request_to_interaction = Put(@, r, current_interaction),
                           !.playwright_to_logged = Put(@, S.reqs[r].raw, r)]
        ELSE [S EXCEPT !.request_backlog = Append(@, r)]

add_request(S, r) ==
    LET S1 == [S EXCEPT !.playwright_to_logged = Put(@, S.reqs[r].raw, r)]
        timestamp == S.reqs[r].timestamp
    IN  IF /\ S1.interactions # <<>>
           /\ S1.inter[S1.interactions[Len(S1.interactions)]].timestamp
                > timestamp - FORWARD_WINDOW
        THEN LET current_interaction == S1.interactions[Len(S1.interactions)]
             IN  [Interaction_add_request(S1, current_interaction, r)
                    EXCEPT !.request_to_interaction = Put(@, r, current_interaction)]
        ELSE [S1 EXCEPT !.request_backlog = Append(@, r)]

\* add_response that attaches to the most recent interaction instead of the
\* one its request was attributed to.
add_response_to_last(S, raw_req, clock) ==
    IF raw_req \notin DOMAIN S.playwright_to_logged THEN S
    ELSE LET logged_request == S.playwright_to_logged[raw_req]
             S1 == [S EXCEPT !.nresp = @ + 1]
             logged_response == [id |-> S1.nresp, timestamp |-> clock,
                                 request |-> logged_request]
         IN  IF logged_request \in DOMAIN S1.request_to_interaction
             THEN Interaction_add_response(
                    S1, S1.interactions[Len(S1.interactions)], logged_response)
             ELSE S1

\* add_response without "if not logged_request: return": logged_request.id
\* of None raises AttributeError.
add_response_unguarded(S, raw_req, clock) ==
    IF raw_req \notin DOMAIN S.playwright_to_logged
    THEN [S EXCEPT !.nresp = @ + 1, !.raised = TRUE]
    ELSE LET logged_request == S.playwright_to_logged[raw_req]
             S1 == [S EXCEPT !.nresp = @ + 1]
             logged_response == [id |-> S1.nresp, timestamp |-> clock,
                                 request |-> logged_request]
         IN  IF logged_request \in DOMAIN S1.request_to_interaction
             THEN Interaction_add_response(
                    S1, S1.request_to_interaction[logged_request], logged_response)
             ELSE S1

\* add_response that falls back to the most recent interaction when the
\* request has none.
add_response_fallback(S, raw_req, clock) ==
    IF raw_req \notin DOMAIN S.playwright_to_logged THEN S
    ELSE LET logged_request == S.playwright_to_logged[raw_req]
             S1 == [S EXCEPT !.nresp = @ + 1]
             logged_response == [id |-> S1.nresp, timestamp |-> clock,
                                 request |-> logged_request]
         IN  IF logged_request \in DOMAIN S1.request_to_interaction
             THEN Interaction_add_response(
                    S1, S1.request_to_interaction[logged_request], logged_response)
             ELSE IF S1.interactions # <<>>
             THEN Interaction_add_response(
                    S1, S1.interactions[Len(S1.interactions)], logged_response)
             ELSE S1

\* response is the raw request the driver's response refers to; the
\* LoggedResponse takes its timestamp from the clock.
add_response(S, raw_req, clock) ==
    IF raw_req \notin DOMAIN S.playwright_to_logged THEN S
    ELSE LET logged_request == S.playwright_to_logged[raw_req]
             S1 == [S EXCEPT !.nresp = @ + 1]
             logged_response == [id |-> S1.nresp, timestamp |-> clock,
                                 request |-> logged_request]
         IN  IF logged_request \in DOMAIN S1.request_to_interaction
             THEN Interaction_add_response(
                    S1, S1.request_to_interaction[logged_request], logged_response)
             ELSE S1

\* --------------------------------------------------------------- Init
\* The parts of the program that are not running.
IdleTools ==
    /\ run = <<>>
    /\ inject = <<>>
    /\ doc = <<>>
    /\ dirs = <<>>

InitLogger ==
    /\ inter = <<>>
    /\ reqs = <<>>
    /\ interactions = <<>>
    /\ request_backlog = <<>>
    /\ request_to_interaction = <<>>
    /\ playwright_to_logged = <<>>
    /\ nresp = 0
    /\ raised = FALSE
    /\ now = 0
    /\ raws = <<>>
    /\ ready = <<>>
    /\ pending = {}
    /\ ncalls = 0
    /\ call = [op |-> "init", arg |-> 0]
    /\ unsurfaced = {}

\* manual_workflow up to the registration of the listeners.
Init ==
    /\ InitLogger
    /\ pageobjs = <<NewPage(START_URL)>>
    /\ site = [url \in {START_URL} |-> 1]
    /\ current_page = 1
    /\ listeners = AllListeners
    /\ session = "waiting"
    /\ json = <<>>
    /\ request_failed = {}
    /\ replay = <<>>
    /\ clone = <<>>
    /\ IdleTools

\* Responses a call to add_response builds for a request that has no
\* interaction at that moment.
Orphaned(S, raw_req) ==
    IF /\ raw_req \in DOMAIN S.playwright_to_logged
       /\ S.playwright_to_logged[raw_req] \notin DOMAIN S.request_to_interaction
    THEN {[id |-> S.nresp + 1, request |-> S.playwright_to_logged[raw_req]]}
    ELSE {}

\* ------------------------------------------- the correlator, called freely
\* record_interaction with a freshly constructed Interaction.
LogInteraction ==
    /\ ncalls < MaxCalls /\ ~raised
    /\ \E ts \in Timestamps :
         LET S1 == NewInteraction(Logger, ts)
             i == Len(S1.inter)
         IN  /\ SetLogger(log_interaction(S1, i))
             /\ call' = [op |-> "log_interaction", arg |-> i]
    /\ ncalls' = ncalls + 1
    /\ UNCHANGED <<now, raws, ready, pending, unsurfaced>>
    /\ UNCHANGED <<sessionVars, batchVars>>

\* record_request with a freshly constructed LoggedRequest around a new raw
\* request.
AddRequest ==
    /\ ncalls < MaxCalls /\ ~raised
    /\ \E ts \in Timestamps, m \in Methods :
         LET S1 == NewLoggedRequest(Logger, ts, m, Len(reqs) + 1)
             r == Len(S1.reqs)
         IN  /\ SetLogger(add_request(S1, r))
             /\ call' = [op |-> "add_request", arg |-> r]
    /\ ncalls' = ncalls + 1
    /\ UNCHANGED <<now, raws, ready, pending, unsurfaced>>
    /\ UNCHANGED <<sessionVars, batchVars>>

\* record_response for a response to a registered raw request, or to the
\* next raw request, which is not registered (yet).  The clock may have
\* advanced since the last call.
AddResponse ==
    /\ ncalls < MaxCalls /\ ~raised
    /\ \E raw_req \in 1..(Len(reqs) + 1), clock \in {now, now + 1} :
         /\ clock <= MaxNow
         /\ SetLogger(add_response(Logger, raw_req, clock))
         /\ now' = clock
         /\ unsurfaced' = unsurfaced \cup Orphaned(Logger, raw_req)
         /\ call' = [op |-> "add_response", arg |-> raw_req]
    /\ ncalls' = ncalls + 1
    /\ UNCHANGED <<raws, ready, pending>>
    /\ UNCHANGED <<sessionVars, batchVars>>

Next == LogInteraction \/ AddRequest \/ AddResponse

Spec == Init /\ [][Next]_vars

\* --------------------------------------------------- manual_workflow handlers
Last(s) == s[Len(s)]

\* on_request whose direct attachment does not look at the clock.
on_request_direct_always(S, raw, method, clock1, clock2) ==
    IF method # "POST" THEN S
    ELSE LET S1 == NewLoggedRequest(S, clock1, method, raw)
             logged_request == Len(S1.reqs)
             S2 == add_request(S1, logged_request)
         IN  IF S2.interactions # <<>>
             THEN [Interaction_add_request(S2, Last(S2.interactions), logged_request)
                     EXCEPT !.request_to_interaction =
                              Put(@, logged_request, Last(S2.interactions))]
             ELSE S2

\* on_request without "if request.method != 'POST': return".
on_request_unfiltered(S, raw, method, clock1, clock2) ==
    LET S1 == NewLoggedRequest(S, clock1, method, raw)
        logged_request == Len(S1.reqs)
        S2 == add_request(S1, logged_request)
    IN  IF /\ S2.interactions # <<>>
           /\ clock2 - S2.inter[Last(S2.interactions)].timestamp < DIRECT_WINDOW
        THEN [Interaction_add_request(S2, Last(S2.interactions), logged_request)
                EXCEPT !.request_to_interaction =
                         Put(@, logged_request, Last(S2.interactions))]
        ELSE S2

\* on_request: clock1 is the clock when the LoggedRequest is built, clock2
\* the clock read after logger.add_request returned.
on_request(S, raw, method, clock1, clock2) ==
    IF method # "POST" THEN S
    ELSE LET S1 == NewLoggedRequest(S, clock1, method, raw)
             logged_request == Len(S1.reqs)
             S2 == add_request(S1, logged_request)
         IN  IF /\ S2.interactions # <<>>
                /\ clock2 - S2.inter[Last(S2.interactions)].timestamp < DIRECT_WINDOW
             THEN [Interaction_add_request(S2, Last(S2.interactions), logged_request)
                     EXCEPT !.request_to_interaction =
                              Put(@, logged_request, Last(S2.interactions))]
             ELSE S2

\* on_response
on_response(S, raw, method, clock) ==
    IF method # "POST" THEN S ELSE add_response(S, raw, clock)

\* ------------------------------------------------------ the capture session
\* The Site as the handlers see it: site.pages, the Page objects and the
\* closure variable current_page; result and raised carry a call's outcome.
World ==
    [site |-> site, pageobjs |-> pageobjs, current_page |-> current_page,
     result |-> 0, raised |-> FALSE]

SetWorld(W) ==
    /\ site' = W.site
    /\ pageobjs' = W.pageobjs
    /\ current_page' = W.current_page

\* setup_page that builds a new Page whether or not the URL is known.
setup_page_always_new(W, page_url, makedirs_ok) ==
    LET W1 == [W EXCEPT !.pageobjs = Append(@, NewPage(page_url))]
        page == Len(W1.pageobjs)
        W2 == [W1 EXCEPT !.site = Put(@, page_url, page)]
    IN  IF makedirs_ok THEN [W2 EXCEPT !.result = page]
        ELSE [W2 EXCEPT !.raised = TRUE]

\* setup_page: os.makedirs may raise after the Page is in site.pages.
setup_page(W, page_url, makedirs_ok) ==
    IF page_url \in DOMAIN W.site
    THEN [W EXCEPT !.result = W.site[page_url]]
    ELSE LET W1 == [W EXCEPT !.pageobjs = Append(@, NewPage(page_url))]
             page == Len(W1.pageobjs)
             W2 == [W1 EXCEPT !.site = Put(@, page_url, page)]
         IN  IF makedirs_ok THEN [W2 EXCEPT !.result = page]
             ELSE [W2 EXCEPT !.raised = TRUE]

\* on_frame_navigated that sets up a new Page on every main-frame navigation.
on_frame_navigated_new_page(W, url, main_frame, makedirs_ok) ==
    IF ~main_frame THEN W
    ELSE LET W1 == setup_page_always_new(W, url, makedirs_ok)
         IN  IF W1.raised THEN W1
             ELSE [W1 EXCEPT !.current_page = W1.result]

\* on_frame_navigated up to its await of screenshot_page, which catches its
\* own exceptions and writes only page.screenshot.
on_frame_navigated(W, url, main_frame, makedirs_ok) ==
    IF ~main_frame THEN W
    ELSE IF url \notin DOMAIN W.site
         THEN LET W1 == setup_page(W, url, makedirs_ok)
              IN  IF W1.raised THEN W1
                  ELSE [W1 EXCEPT !.current_page = W1.result]
         ELSE [W EXCEPT !.current_page = W.site[url]]

\* Site.to_json that leaves out the interactions without requests.
to_json_skip_empty(W, S) ==
    [url \in DOMAIN W.site |->
        LET page == W.pageobjs[W.site[url]]
            kept == SelectSeq(page.interactions,
                              LAMBDA i : S.inter[i].requests # <<>>)
        IN  [url |-> page.url,
             interactions |->
               [k \in DOMAIN kept |->
                  [timestamp |-> S.inter[kept[k]].timestamp,
                   interaction_screenshot |-> S.inter[kept[k]].interaction_screenshot,
                   request_count |-> Len(S.inter[kept[k]].requests),
                   response_count |-> Len(S.inter[kept[k]].responses)]]]]

\* Site.to_json: the serializable_site dictionary it dumps.
to_json(W, S) ==
    [url \in DOMAIN W.site |->
        LET page == W.pageobjs[W.site[url]]
        IN  [url |-> page.url,
             interactions |->
               [k \in DOMAIN page.interactions |->
                  LET interaction == S.inter[page.interactions[k]]
                  IN  [timestamp |-> interaction.timestamp,
                       interaction_screenshot |-> interaction.interaction_screenshot,
                       request_count |-> Len(interaction.requests),
                       response_count |-> Len(interaction.responses)]]]]

\* A handler that raises inside its task: the Task keeps the exception and
\* the coroutine waiting for the stop signal never sees it.
TaskException_propagates(s) == "aborted"

TaskException(s) == s

\* The finally block that leaves the request listener registered.
remove_listeners_keep_request(ls) == ls \cap {"request"}

\* The three remove_listener calls of the finally block.
remove_listeners(ls) == ls \ AllListeners

\* An event loop that runs the newest task first.
Dispatch_newest_first(kind, task) ==
    IF kind \in listeners THEN <<task>> \o ready ELSE ready

\* The driver emits an event of some kind: the wrapper registered for it, if
\* still registered, creates the handler's task, which asyncio queues behind
\* the tasks already ready.
Dispatch(kind, task) ==
    IF kind \in listeners THEN Append(ready, task) ELSE ready

\* An event nobody listens for runs no code of the program.
DispatchCall(kind) ==
    IF kind \in listeners THEN call ELSE [op |-> "not_dispatched", arg |-> 0]

\* The wall clock advances.
Tick ==
    /\ now < MaxNow
    /\ now' = now + 1
    /\ UNCHANGED <<inter, reqs, interactions, request_backlog,
                   request_to_interaction, playwright_to_logged, nresp, raised,
                   raws, ready, pending, ncalls, call, unsurfaced>>
    /\ UNCHANGED <<sessionVars, batchVars>>

\* The driver emits "request": request_handler creates the on_request task.
RequestEvent ==
    /\ ncalls < MaxEvents
    /\ \E m \in Methods :
         /\ raws' = Append(raws, [method |-> m])
         /\ ready' = Dispatch("request",
                              [kind |-> "request", arg |-> Len(raws) + 1])
    /\ call' = DispatchCall("request")
    /\ ncalls' = ncalls + 1
    /\ UNCHANGED <<inter, reqs, interactions, request_backlog,
                   request_to_interaction, playwright_to_logged, nresp, raised,
                   now, pending, unsurfaced>>
    /\ UNCHANGED <<sessionVars, batchVars>>

\* The driver emits "response" for a request it has sent: response_handler
\* creates the on_response task.
ResponseEvent ==
    /\ ncalls < MaxEvents
    /\ \E raw \in DOMAIN raws :
         ready' = Dispatch("response", [kind |-> "response", arg |-> raw])
    /\ call' = DispatchCall("response")
    /\ ncalls' = ncalls + 1
    /\ UNCHANGED <<inter, reqs, interactions, request_backlog,
                   request_to_interaction, playwright_to_logged, nresp, raised,
                   now, raws, pending, unsurfaced>>
    /\ UNCHANGED <<sessionVars, batchVars>>

\* The driver emits "framenavigated" for the main frame or for a sub-frame
\* (whose URL the handler never reads): frame_navigated_handler creates the
\* on_frame_navigated task.
NavigateEvent ==
    /\ ncalls < MaxEvents
    /\ \E url \in Urls, main_frame \in BOOLEAN :
         /\ main_frame \/ url = START_URL
         /\ ready' = Dispatch("framenavigated",
                              [kind |-> "navigate", arg |-> url,
                               main_frame |-> main_frame])
    /\ call' = DispatchCall("framenavigated")
    /\ ncalls' = ncalls + 1
    /\ UNCHANGED <<inter, reqs, interactions, request_backlog,
                   request_to_interaction, playwright_to_logged, nresp, raised,
                   now, raws, pending, unsurfaced>>
    /\ UNCHANGED <<sessionVars, batchVars>>

\* The page's click listener calls the exposed notify_click binding, which
\* stays exposed after the listeners are removed: an on_page_interaction task.
GestureEvent ==
    /\ ncalls < MaxEvents
    /\ ready' = Append(ready, [kind |-> "gesture", arg |-> 0])
    /\ ncalls' = ncalls + 1
    /\ UNCHANGED <<inter, reqs, interactions, request_backlog,
                   request_to_interaction, playwright_to_logged, nresp, raised,
                   now, raws, pending, call, unsurfaced>>
    /\ UNCHANGED <<sessionVars, batchVars>>

\* The event loop runs the oldest ready on_request task to its end (its only
\* await, logger.add_request, never suspends).
RunRequest ==
    /\ ready # <<>> /\ Head(ready).kind = "request"
    /\ \E clock2 \in {now, now + 1} :
         /\ clock2 <= MaxNow
         /\ SetLogger(on_request(Logger, Head(ready).arg,
                                 raws[Head(ready).arg].method, now, clock2))
         /\ now' = clock2
    /\ ready' = Tail(ready)
    /\ call' = [op |-> "on_request", arg |-> Head(ready).arg]
    /\ UNCHANGED <<raws, pending, ncalls, unsurfaced>>
    /\ UNCHANGED <<sessionVars, batchVars>>

\* The on_request task of a POST ends with an exception: LoggedRequest reads
\* request.post_data, which raises for a body that is not text.
RunRequestRaise ==
    /\ ready # <<>> /\ Head(ready).kind = "request"
    /\ raws[Head(ready).arg].method = "POST"
    /\ ready' = Tail(ready)
    /\ session' = TaskException(session)
    /\ request_failed' = request_failed \cup {Head(ready).arg}
    /\ call' = [op |-> "raise", arg |-> Head(ready).arg]
    /\ UNCHANGED <<inter, reqs, interactions, request_backlog,
                   request_to_interaction, playwright_to_logged, nresp, raised,
                   now, raws, pending, ncalls, unsurfaced>>
    /\ UNCHANGED <<site, pageobjs, current_page, listeners, json, batchVars>>

\* The event loop runs the oldest ready on_response task to its end.
RunResponse ==
    /\ ready # <<>> /\ Head(ready).kind = "response"
    /\ LET raw == Head(ready).arg IN
         /\ SetLogger(on_response(Logger, raw, raws[raw].method, now))
         /\ unsurfaced' = unsurfaced \cup
                IF raws[raw].method = "POST" THEN Orphaned(Logger, raw) ELSE {}
         /\ call' = [op |-> "on_response", arg |-> raw]
    /\ ready' = Tail(ready)
    /\ UNCHANGED <<now, raws, pending, ncalls>>
    /\ UNCHANGED <<sessionVars, batchVars>>

\* The event loop runs the oldest ready on_frame_navigated task; when
\* os.makedirs raises in setup_page the task ends with that exception.
RunNavigate ==
    /\ ready # <<>> /\ Head(ready).kind = "navigate"
    /\ \E makedirs_ok \in BOOLEAN :
         LET W == on_frame_navigated(World, Head(ready).arg,
                                     Head(ready).main_frame, makedirs_ok)
         IN  /\ SetWorld(W)
             /\ session' = IF W.raised THEN TaskException(session) ELSE session
             /\ call' = [op |-> IF W.raised THEN "raise"
                                ELSE "on_frame_navigated", arg |-> 0]
    /\ ready' = Tail(ready)
    /\ UNCHANGED <<inter, reqs, interactions, request_backlog,
                   request_to_interaction, playwright_to_logged, nresp, raised,
                   now, raws, pending, ncalls, unsurfaced>>
    /\ UNCHANGED <<listeners, json, request_failed, batchVars>>

\* on_page_interaction up to its first await: the Interaction is built with
\* the current time and the handler waits for network quiescence.
RunGesture ==
    /\ ready # <<>> /\ Head(ready).kind = "gesture"
    /\ SetLogger(NewInteraction(Logger, now))
    /\ pending' = pending \cup {[interaction |-> Len(inter) + 1,
                                 at |-> "networkidle", page |-> 0,
                                 origin |-> current_page]}
    /\ ready' = Tail(ready)
    /\ call' = [op |-> "on_page_interaction", arg |-> Len(inter) + 1]
    /\ UNCHANGED <<now, raws, ncalls, unsurfaced>>
    /\ UNCHANGED <<sessionVars, batchVars>>

\* wait_for_load_state returned: the handler builds the screenshot path from
\* current_page.dir and starts the screenshot.
GestureIdle ==
    /\ \E g \in pending :
         /\ g.at = "networkidle"
         /\ pending' = (pending \ {g}) \cup
                         {[g EXCEPT !.at = "screenshot", !.page = current_page]}
    /\ UNCHANGED <<inter, reqs, interactions, request_backlog,
                   request_to_interaction, playwright_to_logged, nresp, raised,
                   now, raws, ready, ncalls, call, unsurfaced>>
    /\ UNCHANGED <<sessionVars, batchVars>>

\* wait_for_load_state raises (its timeout expired before the network went
\* quiet) or the screenshot raises: nothing in on_page_interaction catches
\* it, so the task ends there.
GestureRaise ==
    /\ \E g \in pending :
         /\ pending' = pending \ {g}
         /\ call' = [op |-> "raise", arg |-> g.interaction]
    /\ session' = TaskException(session)
    /\ UNCHANGED <<inter, reqs, interactions, request_backlog,
                   request_to_interaction, playwright_to_logged, nresp, raised,
                   now, raws, ready, ncalls, unsurfaced>>
    /\ UNCHANGED <<site, pageobjs, current_page, listeners, json,
                   request_failed, batchVars>>

\* The rest of on_page_interaction once the screenshot is taken, with the
\* append to current_page.interactions left out.
on_page_interaction_no_append(W, S, g) ==
    [W |-> W,
     S |-> log_interaction(
             set_interaction_screenshot(S, g.interaction, g.page),
             g.interaction)]

\* The rest of on_page_interaction once the screenshot is taken: nothing
\* suspends between line 165 and the end of log_interaction.
on_page_interaction(W, S, g) ==
    [W |-> [W EXCEPT !.pageobjs[W.current_page].interactions =
                       Append(@, g.interaction)],
     S |-> log_interaction(
             set_interaction_screenshot(S, g.interaction, g.page),
             g.interaction)]

\* The screenshot is taken: the handler sets the path, appends the
\* interaction to the current page, logs it and ends.
GestureLog ==
    /\ \E g \in pending :
         /\ g.at = "screenshot"
         /\ pending' = pending \ {g}
         /\ LET R == on_page_interaction(World, Logger, g)
            IN  SetLogger(R.S) /\ SetWorld(R.W)
         /\ call' = [op |-> "log_interaction", arg |-> g.interaction]
    /\ UNCHANGED <<now, raws, ready, ncalls, unsurfaced>>
    /\ UNCHANGED <<listeners, session, json, request_failed, batchVars>>

\* The stop signal arrives or waiting for it raises: either way the finally
\* block removes the listeners, manual_workflow returns the Site and main
\* writes it with to_json before anything else runs.
Stop ==
    /\ session = "waiting"
    /\ call' = [op |-> "stop", arg |-> 0]
    /\ listeners' = remove_listeners(listeners)
    /\ session' = "returned"
    /\ json' = to_json(World, Logger)
    /\ UNCHANGED <<inter, reqs, interactions, request_backlog,
                   request_to_interaction, playwright_to_logged, nresp, raised,
                   now, raws, ready, pending, ncalls, unsurfaced>>
    /\ UNCHANGED <<site, pageobjs, current_page, request_failed, batchVars>>

NextSession ==
    \/ Tick
    \/ RequestEvent
    \/ ResponseEvent
    \/ NavigateEvent
    \/ GestureEvent
    \/ RunRequest
    \/ RunRequestRaise
    \/ RunResponse
    \/ RunNavigate
    \/ RunGesture
    \/ GestureIdle
    \/ GestureRaise
    \/ GestureLog
    \/ Stop

SessionSpec == Init /\ [][NextSession]_vars

\* --------------------------------------------------- automated_workflow
\* The state left by a capture session that visited n pages and recorded
\* nothing else.
CapturedSite(n) ==
    /\ InitLogger
    /\ pageobjs = [p \in 1..n |-> NewPage(PageUrls[p])]
    /\ site = [url \in {PageUrls[p] : p \in 1..n} |->
                 CHOOSE p \in 1..n : PageUrls[p] = url]
    /\ current_page = 1
    /\ listeners = {}
    /\ session = "returned"
    /\ json = to_json(World, Logger)
    /\ request_failed = {}

\* automated_workflow's locals at the top of the loop: pages is
\* list(site.get_pages()), idx the position of the for loop; html[p] tells
\* whether page.html is set, visits[p] counts the iterations begun for page
\* p, outcome[p] how its iteration ended, load[p] how the wait for the load
\* state went and assets[p] whether the asset extraction raised.
ReplayStart(n) ==
    [pc |-> "goto", idx |-> 1, pages |-> [p \in 1..n |-> p],
     html |-> [p \in 1..n |-> FALSE],
     visits |-> [p \in 1..n |-> IF p = 1 THEN 1 ELSE 0],
     outcome |-> [p \in 1..n |-> "none"],
     load |-> [p \in 1..n |-> "none"],
     assets |-> [p \in 1..n |-> "none"]]

ReplayInit ==
    /\ \E n \in 1..MaxPages :
         /\ CapturedSite(n)
         /\ replay = ReplayStart(n)
    /\ clone = <<>>
    /\ IdleTools

\* A loop whose "continue" leaves the loop instead.
break_loop(R, how) ==
    [R EXCEPT !.outcome[R.idx] = how, !.pc = "done"]

\* The iteration for the current page ends (continue, the outer except, or
\* the end of the body): the for loop takes the next page, if any.
continue_loop(R, how) ==
    LET R1 == [R EXCEPT !.outcome[R.idx] = how]
    IN  IF R.idx < Len(R.pages)
        THEN [R1 EXCEPT !.idx = @ + 1, !.pc = "goto",
                        !.visits[R.idx + 1] = @ + 1]
        ELSE [R1 EXCEPT !.pc = "done"]

\* os.makedirs and goto: navigation succeeds, goto raises (continue), or
\* os.makedirs raises (outer except).
ReplayGoto ==
    /\ replay.pc = "goto"
    /\ \E res \in {"ok", "navigation_failed", "exception"} :
         replay' = IF res = "ok" THEN [replay EXCEPT !.pc = "load"]
                   ELSE continue_loop(replay, res)
    /\ UNCHANGED <<captureVars, sessionVars, clone, toolVars>>

\* The two waits for a load state: both return, networkidle times out (bare
\* except) or domcontentloaded raises (except Exception); the page is
\* processed in every case.
ReplayLoad ==
    /\ replay.pc = "load"
    /\ \E res \in {"idle", "idle_timeout", "load_error"} :
         replay' = [replay EXCEPT !.load[replay.idx] = res, !.pc = "content"]
    /\ UNCHANGED <<captureVars, sessionVars, clone, toolVars>>

\* content(): returns the document, or raises (continue).
ReplayContent ==
    /\ replay.pc = "content"
    /\ \E res \in {"ok", "content_failed"} :
         replay' = IF res = "ok" THEN [replay EXCEPT !.pc = "process"]
                   ELSE continue_loop(replay, res)
    /\ UNCHANGED <<captureVars, sessionVars, clone, toolVars>>

\* The simplification pipeline up to page.html = html_file_path: it runs
\* through and page.html is set, or something in it raises (outer except)
\* before page.html is set.
ReplayProcess ==
    /\ replay.pc = "process"
    /\ \E res \in {"ok", "exception"} :
         replay' = IF res = "ok"
                   THEN [replay EXCEPT !.html[replay.idx] = TRUE,
                                       !.pc = "assets"]
                   ELSE continue_loop(replay, res)
    /\ UNCHANGED <<captureVars, sessionVars, clone, toolVars>>

\* Link extraction and extract_assets_from_html, whose exceptions are caught
\* where they arise.
ReplayAssets ==
    /\ replay.pc = "assets"
    /\ \E res \in {"ok", "error"} :
         replay' = [replay EXCEPT !.assets[replay.idx] = res, !.pc = "sleep"]
    /\ UNCHANGED <<captureVars, sessionVars, clone, toolVars>>

\* asyncio.sleep(1) returns and the body of the loop ends.
ReplaySleep ==
    /\ replay.pc = "sleep"
    /\ replay' = continue_loop(replay, "ok")
    /\ UNCHANGED <<captureVars, sessionVars, clone, toolVars>>

ReplayNext ==
    \/ ReplayGoto
    \/ ReplayLoad
    \/ ReplayContent
    \/ ReplayProcess
    \/ ReplayAssets
    \/ ReplaySleep

ReplaySpec == ReplayInit /\ [][ReplayNext]_vars

\* Every await of the loop returns or raises within its timeout (goto 30 s,
\* load states 5 s, asset fetch 10 s, sleep 1 s), so a step that can be
\* taken is taken.
ReplayLiveSpec == ReplaySpec /\ WF_vars(ReplayNext)

\* ------------------------------------------------------- clone_workflow
\* Texts are sequences of tokens.  FENCE_HTML is the opening ```html, FENCE a
\* closing ```; Html[k] is the markup the model writes in stage k and
\* CapturedHtml the simplified document the replay phase left in page.html.
FENCE_HTML == "<fence html>"
FENCE == "<fence>"
CapturedHtml == <<"<html>captured</html>">>
Html == <<"<html>v1</html>", "<html>v2</html>", "<html>v3</html>",
          "<html>final</html>">>

\* What the model may answer in a stage that expects a ```html block: a
\* block inside prose, prose only, or a block that is never closed.
FencedResponses(k) ==
    {<<"Here is the page:", FENCE_HTML, Html[k], FENCE, "Done.">>,
     <<"I cannot do that.">>,
     <<FENCE_HTML, Html[k]>>}

\* What the model may answer in implement_interactions, as json.loads sees
\* it: not JSON, an object with or without the "html" key, or an array.
JsonResponses ==
    {[json |-> "invalid", keys |-> {}],
     [json |-> "object", keys |-> {"html", "functionality"}],
     [json |-> "object", keys |-> {"functionality"}],
     [json |-> "array", keys |-> {}]}

\* "```" in s: the opening fence contains the closing one.
IsFence(tok) == tok \in {FENCE, FENCE_HTML}

\* "```html" in output and "```" in output.split("```html", 1)[1]
HasHtmlBlock(output) ==
    \E a \in DOMAIN output :
        /\ output[a] = FENCE_HTML
        /\ \A b \in 1..(a - 1) : output[b] # FENCE_HTML
        /\ \E c \in (a + 1)..Len(output) : IsFence(output[c])

\* output.split("```html")[1].split("```")[0]
ExtractHtmlBlock(output) ==
    LET a == CHOOSE x \in DOMAIN output :
                 /\ output[x] = FENCE_HTML
                 /\ \A b \in 1..(x - 1) : output[b] # FENCE_HTML
        c == CHOOSE x \in (a + 1)..Len(output) :
                 /\ IsFence(output[x])
                 /\ \A b \in (a + 1)..(x - 1) : ~IsFence(output[b])
    IN  SubSeq(output, a + 1, c - 1)

\* The try block of initialize_html, implement_functionality and link_pages:
\* the block if there is one, else the raw output.  With output a str
\* neither IndexError nor AttributeError can arise, so the except branch
\* never runs.
parse_fenced(output) ==
    IF HasHtmlBlock(output) THEN ExtractHtmlBlock(output) ELSE output

\* The clone of n pages starts: html[p] tells whether the replay phase set
\* page.html; files maps the paths written so far to their content, a path
\* being <<stage, page>> with stage 0 for page.html; construction[p] is the
\* set of keys of site.construction[page.url]; last is the iteration that
\* produced this state.
CloneStart(n, html) ==
    [stage |-> 1, idx |-> 1, pages |-> [p \in 1..n |-> p], html |-> html,
     files |-> [f \in {<<0, p>> : p \in {q \in 1..n : html[q]}} |-> CapturedHtml],
     construction |-> [p \in 1..n |-> {}],
     last |-> [stage |-> 0, page |-> 0, response |-> <<>>, ran |-> FALSE]]

CloneInit ==
    /\ \E n \in 1..MaxClonePages :
         /\ CapturedSite(n)
         /\ \E html \in [1..n -> BOOLEAN] : clone = CloneStart(n, html)
    /\ replay = <<>>
    /\ IdleTools

\* The for loop of a stage takes the next page; after the last page the
\* next stage starts with the first, and after link_pages the workflow
\* returns the site.
NextPage(C) ==
    IF C.idx < Len(C.pages) THEN [C EXCEPT !.idx = @ + 1]
    ELSE [C EXCEPT !.stage = @ + 1, !.idx = 1]

\* The iteration of stage k for the current page ran fn and this was the
\* model's answer (ran is FALSE, and there is no answer, when the stage
\* skipped the page or the call raised).
Ran(C, response, ran) ==
    [C EXCEPT !.last = [stage |-> C.stage, page |-> C.idx,
                        response |-> IF ran THEN response ELSE <<>>,
                        ran |-> ran]]

WriteFile(C, path, content) ==
    [C EXCEPT !.files = Put(@, path, content)]

SetKeys(C, p, keys) ==
    [C EXCEPT !.construction[p] = @ \cup keys]

\* initialize_html and the body of its loop: open(page.html) raises when
\* page.html is None and the API call may raise; both leave 'v1' unset.
initialize_html(C, p, response, api_ok) ==
    IF ~C.html[p] \/ ~api_ok THEN Ran(C, response, FALSE)
    ELSE SetKeys(WriteFile(Ran(C, response, TRUE), <<1, p>>,
                           parse_fenced(response)), p, {"v1"})

\* implement_interactions and the body of its loop.  The file is opened for
\* writing before output["html"] is evaluated, so a KeyError (object without
\* the key) or a TypeError (array) leaves it empty; the TypeError is not
\* caught by the function and leaves 'v2' unset.
implement_interactions(C, p, response, api_ok) ==
    IF "v1" \notin C.construction[p] \/ ~api_ok THEN Ran(C, response, FALSE)
    ELSE LET C1 == Ran(C, response, TRUE)
             html == C.files[<<1, p>>]
         IN  CASE response.json = "invalid" ->
                    SetKeys(WriteFile(C1, <<2, p>>, html), p,
                            {"v2", "functionality"})
               [] response.json = "object" /\ "html" \in response.keys ->
                    SetKeys(WriteFile(C1, <<2, p>>, <<Html[2]>>), p,
                            {"v2", "functionality"})
               [] response.json = "object" /\ "html" \notin response.keys ->
                    SetKeys(WriteFile(C1, <<2, p>>, <<>>), p,
                            {"v2", "functionality"})
               [] OTHER -> WriteFile(C1, <<2, p>>, <<>>)

\* A third stage that asks for 'v1' instead of 'v2'.
implement_functionality_from_v1(C, p, response, api_ok) ==
    IF "v1" \notin C.construction[p] \/ ~api_ok THEN Ran(C, response, FALSE)
    ELSE SetKeys(WriteFile(Ran(C, response, TRUE), <<3, p>>,
                           parse_fenced(response)), p, {"v3"})

\* implement_functionality and the body of its loop.
implement_functionality(C, p, response, api_ok) ==
    IF "v2" \notin C.construction[p] \/ ~api_ok THEN Ran(C, response, FALSE)
    ELSE SetKeys(WriteFile(Ran(C, response, TRUE), <<3, p>>,
                           parse_fenced(response)), p, {"v3"})

\* link_pages and the body of its loop.
link_pages(C, p, response, api_ok) ==
    IF "v3" \notin C.construction[p] \/ ~api_ok THEN Ran(C, response, FALSE)
    ELSE SetKeys(WriteFile(Ran(C, response, TRUE), <<4, p>>,
                           parse_fenced(response)), p, {"v4"})

InitializeHtml ==
    /\ clone.stage = 1
    /\ \E response \in FencedResponses(1), api_ok \in BOOLEAN :
         clone' = NextPage(initialize_html(clone, clone.idx, response, api_ok))
    /\ UNCHANGED <<captureVars, sessionVars, replay, toolVars>>

ImplementInteractions ==
    /\ clone.stage = 2
    /\ \E response \in JsonResponses, api_ok \in BOOLEAN :
         clone' = NextPage(implement_interactions(clone, clone.idx, response,
                                                  api_ok))
    /\ UNCHANGED <<captureVars, sessionVars, replay, toolVars>>

ImplementFunctionality ==
    /\ clone.stage = 3
    /\ \E response \in FencedResponses(3), api_ok \in BOOLEAN :
         clone' = NextPage(implement_functionality(clone, clone.idx, response,
                                                   api_ok))
    /\ UNCHANGED <<captureVars, sessionVars, replay, toolVars>>

LinkPages ==
    /\ clone.stage = 4
    /\ \E response \in FencedResponses(4), api_ok \in BOOLEAN :
         clone' = NextPage(link_pages(clone, clone.idx, response, api_ok))
    /\ UNCHANGED <<captureVars, sessionVars, replay, toolVars>>

CloneNext ==
    \/ InitializeHtml
    \/ ImplementInteractions
    \/ ImplementFunctionality
    \/ LinkPages

CloneSpec == CloneInit /\ [][CloneNext]_vars

\* ----------------------------------------------------------------- main
\* main's locals from "site = None" on: pc is the statement about to run,
\* site tells whether the name site is bound to a Site, files the snapshots
\* written under site_data, called the workflows that were called, excepts
\* the statements that raised and printed the messages of the handlers.
MainStart ==
    [pc |-> "manual_workflow", site |-> FALSE, files |-> {}, called |-> {},
     excepts |-> {}, printed |-> <<>>, propagating |-> FALSE]

MainInit ==
    /\ InitLogger
    /\ pageobjs = <<>>
    /\ site = <<>>
    /\ current_page = 0
    /\ listeners = {}
    /\ session = "not_started"
    /\ json = <<>>
    /\ request_failed = {}
    /\ replay = <<>>
    /\ clone = <<>>
    /\ run = MainStart
    /\ inject = <<>>
    /\ doc = <<>>
    /\ dirs = <<>>

\* A statement raised and the handler of its try printed a message.
Caught(R, stmt, message) ==
    [R EXCEPT !.excepts = @ \cup {stmt}, !.printed = Append(@, message)]

\* "if site:" of step 2 and of step 3.
if_site(R, then, else) ==
    [R EXCEPT !.pc = IF R.site THEN then ELSE else]

\* An except clause of the replay's try that lets the exception go on
\* instead of saving what there is.
except_automated_workflow_reraise(R, stmt, write_ok) ==
    [Caught(R, stmt, "Error in automated workflow")
       EXCEPT !.pc = "done", !.propagating = TRUE]

\* except Exception of the inner try of step 2: the partial snapshot is
\* written; if that write raises, the exception leaves the handler, passes
\* the finally clause and reaches the outer except.
except_automated_workflow(R, stmt, write_ok) ==
    LET R1 == Caught(R, stmt, "Error in automated workflow") IN
      IF write_ok
        THEN [R1 EXCEPT !.files = @ \cup {"automated_site_partial.json"},
                        !.printed = Append(@, "Saved partial automated site data"),
                        !.pc = "context_close_replay"]
        ELSE [R1 EXCEPT !.excepts = @ \cup {"to_json_partial"},
                        !.propagating = TRUE,
                        !.pc = "context_close_replay"]

MainIdle == UNCHANGED <<captureVars, sessionVars, replay, clone, inject, doc, dirs>>

\* site = await manual_workflow(page, start_url)
MainManualWorkflow ==
    /\ run # <<>> /\ run.pc = "manual_workflow"
    /\ \E ok \in BOOLEAN :
         run' = IF ok
                  THEN [run EXCEPT !.site = TRUE, !.called = @ \cup {"manual"},
                                   !.pc = "to_json_site"]
                  ELSE [Caught([run EXCEPT !.called = @ \cup {"manual"}],
                               "manual_workflow", "Error in manual workflow")
                          EXCEPT !.pc = "context_close"]
    /\ MainIdle

\* site.to_json(site.json)
MainSaveSite ==
    /\ run # <<>> /\ run.pc = "to_json_site"
    /\ \E ok \in BOOLEAN :
         run' = IF ok
                  THEN [run EXCEPT !.files = @ \cup {"site.json"},
                                   !.pc = "context_close"]
                  ELSE [Caught(run, "to_json_site", "Error in manual workflow")
                          EXCEPT !.pc = "context_close"]
    /\ MainIdle

\* await context.close() after step 1, then "if site:".
MainContextClose ==
    /\ run # <<>> /\ run.pc = "context_close"
    /\ \E ok \in BOOLEAN :
         run' = if_site(IF ok THEN run
                              ELSE Caught(run, "context_close",
                                          "Warning: Could not close browser context"),
                        "launch_persistent_context", "done")
    /\ MainIdle

\* context = await p.chromium.launch_persistent_context(...)
MainLaunch ==
    /\ run # <<>> /\ run.pc = "launch_persistent_context"
    /\ \E ok \in BOOLEAN :
         run' = IF ok
                  THEN [run EXCEPT !.pc = "new_page"]
                  ELSE if_site(Caught(run, "launch_persistent_context",
                                      "Fatal error in automated workflow setup"),
                               "enhanced_injection_workflow", "done")
    /\ MainIdle

\* page = await context.new_page()
MainNewPage ==
    /\ run # <<>> /\ run.pc = "new_page"
    /\ \E ok \in BOOLEAN :
         run' = IF ok
                  THEN [run EXCEPT !.pc = "automated_workflow"]
                  ELSE if_site(Caught(run, "new_page",
                                      "Fatal error in automated workflow setup"),
                               "enhanced_injection_workflow", "done")
    /\ MainIdle

\* site = await automated_workflow(page, site)
MainAutomatedWorkflow ==
    /\ run # <<>> /\ run.pc = "automated_workflow"
    /\ \E ok \in BOOLEAN, write_ok \in BOOLEAN :
         LET R == [run EXCEPT !.called = @ \cup {"automated"}] IN
           run' = IF ok
                    THEN [R EXCEPT !.pc = "to_json_automated"]
                    ELSE except_automated_workflow(R, "automated_workflow", write_ok)
    /\ MainIdle

\* site.to_json(automated_site.json)
MainSaveAutomated ==
    /\ run # <<>> /\ run.pc = "to_json_automated"
    /\ \E ok \in BOOLEAN, write_ok \in BOOLEAN :
         run' = IF ok
                  THEN [run EXCEPT !.files = @ \cup {"automated_site.json"},
                                   !.printed = Append(@, "Automated workflow completed successfully"),
                                   !.pc = "context_close_replay"]
                  ELSE except_automated_workflow(run, "to_json_automated", write_ok)
    /\ MainIdle

\* finally: await context.close(); an exception on its way out is caught by
\* the outer except; then "if site:" of step 3.
MainContextCloseReplay ==
    /\ run # <<>> /\ run.pc = "context_close_replay"
    /\ \E ok \in BOOLEAN :
         LET R1 == IF ok THEN run
                         ELSE Caught(run, "context_close_replay",
                                     "Warning: Could not close browser context")
             R2 == IF R1.propagating
                     THEN [R1 EXCEPT !.propagating = FALSE,
                                     !.printed = Append(@, "Fatal error in automated workflow setup")]
                     ELSE R1
         IN run' = if_site(R2, "enhanced_injection_workflow", "done")
    /\ MainIdle

\* site = enhanced_injection_workflow(site)
MainEnhancedInjection ==
    /\ run # <<>> /\ run.pc = "enhanced_injection_workflow"
    /\ \E ok \in BOOLEAN :
         LET R == [run EXCEPT !.called = @ \cup {"enhanced_injection"}, !.pc = "done"] IN
           run' = IF ok
                    THEN [R EXCEPT !.printed = Append(@, "Enhanced cloning complete")]
                    ELSE Caught(R, "enhanced_injection_workflow",
                                "Error in enhanced injection workflow")
    /\ MainIdle

MainNext ==
    \/ MainManualWorkflow
    \/ MainSaveSite
    \/ MainContextClose
    \/ MainLaunch
    \/ MainNewPage
    \/ MainAutomatedWorkflow
    \/ MainSaveAutomated
    \/ MainContextCloseReplay
    \/ MainEnhancedInjection

MainSpec == MainInit /\ [][MainNext]_vars


\* ------------------------------------------- enhanced_injection_workflow
\* Page directories (Page.dir) of the pages of the Site handed to the
\* workflow; one of them is the feed page.
InjectDirs == {"ubereats", "ubereats/feed", "ubereats_feed"}

\* re.sub(r'[\\/*?:"<>|]', '_', filename)
sanitize_filename(filename) ==
    IF filename = "ubereats/feed" THEN "ubereats_feed" ELSE filename

\* "ubereats.com/feed" in page.url
is_feed_page(dir) == dir = "ubereats/feed"

SOURCE_DIR == "cloned_injection/source_html"
V1_DIR == "cloned_injection/source_html/v1"
FUNCTIONALITY_DIR == "cloned_injection/with_functionality"
FINAL_DIR == "cloned_injection/final"
InjectFolders == {SOURCE_DIR, V1_DIR, FUNCTIONALITY_DIR, FINAL_DIR}
InjectFilenames == {sanitize_filename(d) : d \in InjectDirs}

\* File contents are sequences of parts; the empty sequence is a file that
\* does not exist.
NoFile == <<>>
\* The HTML the replay wrote at assets/<dir>/page.html.
PageHtml(dir) == <<"page.html", dir>>
\* The HTML initialize_html writes for a feed page.
InitializedHtml(dir) == <<"generated", dir>>
\* str(soup) after inject_javascript added the script tag.
inject_javascript(html) == Append(html, "<script id=injected-functionality>")
\* str(soup) after fix_page_links rewrote the hrefs it could map.
rewrite_links(html) == Append(html, "href")

\* The workflow's locals: pages is list(site.get_pages()) (each page by its
\* dir), file_mapping[p] the folder of the source file of page p (NoFile
\* when the page has none), files the tree under cloned_injection, idx the
\* position of the running loop, last what the last iteration did and
\* attempted the iterations run, with how each ended.
InjectStart(pages) ==
    [pc |-> "client", pages |-> pages, idx |-> 1,
     file_mapping |-> [p \in DOMAIN pages |-> "none"],
     files |-> [f \in InjectFolders \X InjectFilenames |-> NoFile],
     last |-> [stage |-> "none", page |-> 0, outcome |-> "none"],
     attempted |-> {}]

InjectInit ==
    /\ InitLogger
    /\ pageobjs = <<>>
    /\ site = <<>>
    /\ current_page = 0
    /\ listeners = {}
    /\ session = "returned"
    /\ json = <<>>
    /\ request_failed = {}
    /\ replay = <<>>
    /\ clone = <<>>
    /\ run = <<>>
    /\ \E n \in 0..MaxInjectPages :
         \E pages \in [1..n -> InjectDirs] : inject = InjectStart(pages)
    /\ doc = <<>>
    /\ dirs = <<>>

InjectIdle == UNCHANGED <<captureVars, sessionVars, replay, clone, run, doc, dirs>>

page_filename(I, p) == sanitize_filename(I.pages[p])
source_file(I, p) == <<I.file_mapping[p], page_filename(I, p)>>
functionality_file(I, p) == <<FUNCTIONALITY_DIR, page_filename(I, p)>>
final_file(I, p) == <<FINAL_DIR, page_filename(I, p)>>

\* shutil.copy(src, dst) of an existing file, and open(dst, "w").write.
copy(I, src, dst) == [I EXCEPT !.files[dst] = I.files[src]]
write(I, dst, content) == [I EXCEPT !.files[dst] = content]

\* The iteration of the running loop is over: next page, or the code after
\* the loop.
next_page(I, stage, outcome, after) ==
    [I EXCEPT !.last = [stage |-> stage, page |-> I.idx, outcome |-> outcome],
              !.attempted = @ \cup {<<stage, I.idx, outcome>>},
              !.idx = IF I.idx < Len(I.pages) THEN I.idx + 1 ELSE 1,
              !.pc = IF I.idx < Len(I.pages) THEN I.pc ELSE after]

\* One iteration of copy_html_to_source_dir.
copy_html_to_source_dir(I, p, outcome) ==
    LET dir == I.pages[p]
        name == page_filename(I, p) IN
      IF outcome = "initialized"
        THEN [write(I, <<V1_DIR, name>>, InitializedHtml(dir))
                EXCEPT !.file_mapping[p] = V1_DIR]
      ELSE IF outcome = "copied"
        THEN [write(I, <<SOURCE_DIR, name>>, PageHtml(dir))
                EXCEPT !.file_mapping[p] = SOURCE_DIR]
      ELSE I

\* implement_page_functionality whose except clause leaves no file.
implement_page_functionality_no_fallback(I, p, outcome) ==
    IF outcome = "no_elements"
      THEN copy(I, source_file(I, p), functionality_file(I, p))
    ELSE IF outcome = "implemented"
      THEN write(I, functionality_file(I, p),
                 inject_javascript(I.files[source_file(I, p)]))
    ELSE I

\* implement_page_functionality(client, page, source_file,
\* functionality_dir) inside the try of step 2: without interactive
\* elements the source is copied; the model's answer is injected and
\* written; when the call to the model (or anything after it) raises, the
\* source is copied; an exception before the call leaves no file.
implement_page_functionality(I, p, outcome) ==
    IF outcome \in {"no_elements", "llm_failed"}
      THEN copy(I, source_file(I, p), functionality_file(I, p))
    ELSE IF outcome = "implemented"
      THEN write(I, functionality_file(I, p),
                 inject_javascript(I.files[source_file(I, p)]))
    ELSE I

\* fix_page_links and the except clause of step 3 around it: without links
\* the file is copied, else the rewritten page is written; when it raises,
\* the file of with_functionality is copied to final.
fix_page_links(I, p, outcome) ==
    IF outcome \in {"no_links", "raised"}
      THEN copy(I, functionality_file(I, p), final_file(I, p))
      ELSE write(I, final_file(I, p),
                 rewrite_links(I.files[functionality_file(I, p)]))

\* The set-up before step 1: the client, and the count of pages.
InjectClient ==
    /\ inject # <<>> /\ inject.pc = "client"
    /\ \E client_ok \in BOOLEAN :
         inject' = [inject EXCEPT !.pc =
                      IF client_ok /\ Len(inject.pages) > 0 THEN "copy" ELSE "done",
                    !.last = [stage |-> "client", page |-> 0,
                              outcome |-> IF client_ok THEN "ok" ELSE "raised"]]
    /\ InjectIdle

\* Step 1, one page; "if not file_mapping: return site" after the last.
InjectCopy ==
    /\ inject # <<>> /\ inject.pc = "copy"
    /\ \E outcome \in {"no_html", "copied", "initialized", "copy_failed"} :
         /\ outcome = "initialized" => is_feed_page(inject.pages[inject.idx])
         /\ LET I1 == copy_html_to_source_dir(inject, inject.idx, outcome)
                I2 == next_page(I1, "copy", outcome, "functionality")
            IN inject' =
                 IF I2.pc = "functionality"
                      /\ \A p \in DOMAIN I2.pages : I2.file_mapping[p] = "none"
                   THEN [I2 EXCEPT !.pc = "done"]
                   ELSE I2
    /\ InjectIdle

\* Step 2, one page.
InjectFunctionality ==
    /\ inject # <<>> /\ inject.pc = "functionality"
    /\ LET p == inject.idx IN
         IF inject.file_mapping[p] = "none"
           THEN inject' = next_page(inject, "functionality", "no_source", "links")
           ELSE \E outcome \in {"no_elements", "implemented", "llm_failed", "raised"} :
                  inject' = next_page(implement_page_functionality(inject, p, outcome),
                                      "functionality", outcome, "links")
    /\ InjectIdle

\* Step 3, one page.
InjectLinks ==
    /\ inject # <<>> /\ inject.pc = "links"
    /\ LET p == inject.idx IN
         IF inject.files[functionality_file(inject, p)] = NoFile
           THEN inject' = next_page(inject, "links", "no_functionality_file", "done")
           ELSE \E outcome \in {"no_links", "fixed", "raised"} :
                  inject' = next_page(fix_page_links(inject, p, outcome),
                                      "links", outcome, "done")
    /\ InjectIdle

InjectNext ==
    \/ InjectClient
    \/ InjectCopy
    \/ InjectFunctionality
    \/ InjectLinks

InjectSpec == InjectInit /\ [][InjectNext]_vars

\* ------------------------------------------- truncate_repeated_elements
\* max_items of the call in automated_workflow, and the least number of
\* children of a potential grid.
MAX_ITEMS == 12
MIN_GRID_CHILDREN == 8

\* The documents: a body holding up to MaxParents containers, each with n
\* <li> children that all carry the container's item class and differ in
\* their text. A container is a <div>, a <main> or a <nav>; a <div> may have
\* the class "grid", and the children of a container are of similar length
\* or not. There is no <section> and no data-testid attribute.
ContainerTags == {"div", "main", "nav"}
ItemClasses == {"item", "card"}
ChildCounts == (MAX_ITEMS - 1)..(MAX_ITEMS + MaxExtra)
Containers ==
    { c \in [tag : ContainerTags, grid : BOOLEAN, similar : BOOLEAN,
             class : ItemClasses, n : ChildCounts] :
        /\ c.grid => c.tag = "div"
        /\ ~c.similar => c.tag = "main" }
Documents == UNION { [1..k -> Containers] : k \in 0..MaxParents }

\* for item in items[max_items:]: item.decompose(), for every container of
\* the set hit.
decompose(ps, hit) ==
    [p \in DOMAIN ps |->
       IF p \in hit THEN [ps[p] EXCEPT !.n = MAX_ITEMS] ELSE ps[p]]

\* The predefined selectors: of those, "div.grid" matches.
SelectorHits(ps) ==
    {p \in DOMAIN ps : ps[p].tag = "div" /\ ps[p].grid /\ ps[p].n > MAX_ITEMS}

\* potential_grids: a div, ul or section with at least 8 direct children
\* that share a class.
PotentialGrids(ps) ==
    {p \in DOMAIN ps : ps[p].tag = "div" /\ ps[p].n >= MIN_GRID_CHILDREN}

GridHits(ps) == {p \in PotentialGrids(ps) : ps[p].n > MAX_ITEMS}

\* The elements of the key "li:<class>".
StructureCount(ps, class) ==
    LET RECURSIVE Sum(_)
        Sum(k) == IF k = 0 THEN 0
                  ELSE Sum(k - 1) + (IF ps[k].class = class THEN ps[k].n ELSE 0)
    IN Sum(Len(ps))

\* Repeated elements by structure: for each key with more than max_items
\* elements, the parents are gone through in document order and the loop
\* is left after the first one with more than max_items of them.
StructureHits(ps) ==
    {p \in DOMAIN ps :
       /\ StructureCount(ps, ps[p].class) > MAX_ITEMS
       /\ ps[p].n > MAX_ITEMS
       /\ \A q \in 1..(p - 1) : ~(ps[q].class = ps[p].class /\ ps[q].n > MAX_ITEMS)}

\* The final fallback: a div, section or main that is no potential grid,
\* with more than max_items children of one tag and of similar length.
FallbackHits(ps, grids) ==
    {p \in DOMAIN ps :
       /\ ps[p].tag \in {"div", "main"}
       /\ p \notin grids
       /\ ps[p].n > MAX_ITEMS
       /\ ps[p].similar}

\* truncate_repeated_elements(soup, max_items=12): the passes in the order
\* of the code, each on the document the one before left; the result is the
\* document and truncated_count.
truncate_repeated_elements(ps) ==
    LET h1 == SelectorHits(ps)
        ps1 == decompose(ps, h1)
        grids == PotentialGrids(ps1)
        h2 == GridHits(ps1)
        ps2 == decompose(ps1, h2)
        h3 == StructureHits(ps2)
        ps3 == decompose(ps2, h3)
        h4 == FallbackHits(ps3, grids)
        ps4 == decompose(ps3, h4)
    IN [soup |-> ps4,
        truncated_count |-> Cardinality(h1) + Cardinality(h2)
                              + Cardinality(h3) + Cardinality(h4)]

\* doc: the soup, the documents it was before each pass, and the counts
\* the passes returned.
TruncateInit ==
    /\ InitLogger
    /\ pageobjs = <<>>
    /\ site = <<>>
    /\ current_page = 0
    /\ listeners = {}
    /\ session = "returned"
    /\ json = <<>>
    /\ request_failed = {}
    /\ replay = <<>>
    /\ clone = <<>>
    /\ run = <<>>
    /\ inject = <<>>
    /\ \E ps \in Documents : doc = [soup |-> ps, before |-> <<>>, counts |-> <<>>]
    /\ dirs = <<>>

Truncate ==
    /\ doc # <<>>
    /\ Len(doc.counts) < MaxPasses
    /\ LET r == truncate_repeated_elements(doc.soup) IN
         doc' = [soup |-> r.soup,
                 before |-> Append(doc.before, doc.soup),
                 counts |-> Append(doc.counts, r.truncated_count)]
    /\ UNCHANGED <<captureVars, sessionVars, replay, clone, run, inject, dirs>>

TruncateNext == Truncate

TruncateSpec == TruncateInit /\ [][TruncateNext]_vars

\* ------------------------------------------ get_sanitized_name_from_url
\* A URL is http(s)://[www.]ubereats.com<path>[?query]: www tells whether
\* the host starts with "www.", path is what follows the host split at
\* '/', and query the parameters. A piece of text is a sequence of atoms
\* (runs of characters); two URLs that differ in a field differ as strings.
Special == {"!", "."}
Segments == {<<"feed">>, <<"feed", "!">>}
Paths ==
    {<<>>, <<<<>>>>} \cup {<<<<>>, seg>> : seg \in Segments}
      \cup {<<<<>>, seg, <<>>>> : seg \in Segments}
ParamNames == {"q", "pl"}
ParamValues == {"1", "eyJhZGRyZXNzIjoiMSJ9", "eyJhZGRyZXNzIjoiMiJ9"}
Queries ==
    {<<>>} \cup {<<[param |-> n, value |-> v]>> : n \in ParamNames, v \in ParamValues}
SiteUrls == [www : BOOLEAN, path : Paths, query : Queries]

\* len() of the parameter names and values above.
StrLen(str) ==
    CASE str = "q" -> 1
      [] str = "pl" -> 2
      [] str = "1" -> 1
      [] OTHER -> 20

\* The longest parameter name and value that are kept are shorter than this.
PARAM_LIMIT == 12

\* parsed_url.netloc.split('.')
domain_parts(url) ==
    (IF url.www THEN <<<<"www">>>> ELSE <<>>) \o <<<<"ubereats">>, <<"com">>>>

\* [p for p in parsed_url.path.split('/') if p]
path_parts(url) == SelectSeq(url.path, LAMBDA part : part # <<>>)

\* The "param=value" of the parameters short enough, joined by '_'.
RECURSIVE param_values(_)
param_values(query) ==
    IF query = <<>> THEN <<>>
    ELSE LET q == Head(query)
             rest == param_values(Tail(query))
         IN IF StrLen(q.param) < PARAM_LIMIT /\ StrLen(q.value) < PARAM_LIMIT
              THEN <<q.param, "=", q.value>>
                     \o (IF rest = <<>> THEN <<>> ELSE <<"_">> \o rest)
              ELSE rest

\* re.sub(r'[^\w\-=/]', '', base_name), on each part of the name.
sanitize(name) ==
    [k \in DOMAIN name |-> SelectSeq(name[k], LAMBDA atom : atom \notin Special)]

\* get_sanitized_name_from_url(url): the name as its parts between '/'.
get_sanitized_name_from_url(url) ==
    LET parts == domain_parts(url)
        domain_name == IF parts[1] = <<"www">> THEN parts[2] ELSE parts[1]
        base_parts == <<domain_name>> \o path_parts(url)
        params == param_values(url.query)
        base_name == IF url.query # <<>> /\ params # <<>>
                       THEN Append(base_parts, params)
                       ELSE base_parts
    IN sanitize(base_name)

\* Page(url): dir is the sanitized name; html is not set yet.
SitePage(url) ==
    [url |-> url, dir |-> get_sanitized_name_from_url(url), html |-> <<>>]

\* dirs: the pages of the Site in the order they were added, the position
\* of the replay's loop (0 while the capture session runs) and, for each
\* assets/<dir>/page.html written, the URL of the page it was captured
\* from.
SiteInit ==
    /\ InitLogger
    /\ pageobjs = <<>>
    /\ site = <<>>
    /\ current_page = 0
    /\ listeners = {}
    /\ session = "waiting"
    /\ json = <<>>
    /\ request_failed = {}
    /\ replay = <<>>
    /\ clone = <<>>
    /\ run = <<>>
    /\ inject = <<>>
    /\ doc = <<>>
    /\ \E url \in SiteUrls :
         dirs = [pages |-> <<SitePage(url)>>, idx |-> 0, written |-> {}]

SiteIdle == UNCHANGED <<captureVars, sessionVars, replay, clone, run, inject, doc>>

\* setup_page for a URL that is not in site.pages.
SiteSetupPage ==
    /\ dirs # <<>> /\ dirs.idx = 0
    /\ Len(dirs.pages) < MaxSitePages
    /\ \E url \in SiteUrls :
         /\ \A p \in DOMAIN dirs.pages : dirs.pages[p].url # url
         /\ dirs' = [dirs EXCEPT !.pages = Append(@, SitePage(url))]
    /\ SiteIdle

\* The capture session returns and the replay starts.
SiteReplayStart ==
    /\ dirs # <<>> /\ dirs.idx = 0
    /\ dirs' = [dirs EXCEPT !.idx = 1]
    /\ SiteIdle

\* One iteration of the replay: the page's HTML is written at
\* assets/<page.dir>/page.html and page.html set to that path.
SiteReplayPage ==
    /\ dirs # <<>> /\ dirs.idx \in DOMAIN dirs.pages
    /\ LET p == dirs.idx
           html_file_path == <<"assets", dirs.pages[p].dir, "page.html">>
       IN dirs' = [dirs EXCEPT
                     !.pages[p].html = html_file_path,
                     !.written = {w \in @ : w.path # html_file_path}
                                   \cup {[path |-> html_file_path,
                                          from |-> dirs.pages[p].url]},
                     !.idx = p + 1]
    /\ SiteIdle

SiteNext ==
    \/ SiteSetupPage
    \/ SiteReplayStart
    \/ SiteReplayPage

SiteSpec == SiteInit /\ [][SiteNext]_vars

\* ================================================================= claims
Ts(r) == reqs[r].timestamp
Ti(i) == inter[i].timestamp
IsPost(r) == reqs[r].method = "POST"
Holders(r) == {i \in DOMAIN inter : r \in Range(inter[i].requests)}

\* C1: every Response in an Interaction's responses list references a Request
\* that is in the requests list of that same Interaction.
C1_ResponseRequestAttached ==
    \A i \in DOMAIN inter : \A k \in DOMAIN inter[i].responses :
        inter[i].responses[k].request \in Range(inter[i].requests)

\* C1 witness: with two interactions logged, a response is attached to the
\* first of them.
C1_Witness ==
    /\ Len(interactions) >= 2
    /\ inter[interactions[1]].responses # <<>>

\* C2 (as claimed): a write-type request is attributed to an interaction only
\* if it lies in the interaction's look-back window (t_i - 1.0 <= t_r) or in
\* its forward window (0 <= t_r - t_i < 2.0); so a request observed more than
\* 1.0 before the most recent interaction is not attributed to it.
C2_Claim ==
    \A i \in DOMAIN inter : \A r \in Range(inter[i].requests) :
        IsPost(r) =>
          \/ Ti(i) - LOOKBACK_WINDOW <= Ts(r)
          \/ (0 <= Ts(r) - Ti(i) /\ Ts(r) - Ti(i) < FORWARD_WINDOW)

\* C3: each Request is in the requests list of at most one Interaction.
C3_AtMostOneInteraction ==
    \A r \in DOMAIN reqs : Cardinality(Holders(r)) <= 1

\* C3 witness: a request attributed to one interaction lies inside the
\* look-back window of an interaction logged after it.
C3_Witness ==
    \E a, b \in DOMAIN interactions :
        /\ a < b
        /\ \E r \in Range(inter[interactions[a]].requests) :
              /\ IsPost(r)
              /\ Ts(r) > Ti(interactions[b]) - LOOKBACK_WINDOW

\* C4 (as claimed): a read-type (non-POST) request is in no Interaction's
\* requests list and has no entry in the request-to-interaction map.
C4_Claim ==
    \A r \in DOMAIN reqs :
        ~IsPost(r) =>
            /\ r \notin DOMAIN request_to_interaction
            /\ Holders(r) = {}

\* The requests a sweep for an interaction at time t takes from a backlog,
\* for a given test of the look-back window.
InLookBack(r, t) == IsPost(r) /\ Ts(r) > t - LOOKBACK_WINDOW
InLookBackClosed(r, t) == IsPost(r) /\ Ts(r) >= t - LOOKBACK_WINDOW

C7_NoRaiseUnknownResponseNoOp ==
    /\ [](~raised)
    /\ [][(call'.op = "add_response"
             /\ call'.arg \notin DOMAIN playwright_to_logged) =>
            UNCHANGED <<inter, interactions, request_backlog,
                        request_to_interaction, playwright_to_logged>>
       ]_vars

\* C7 witness: record_response was just called for an unregistered request
\* while an interaction holds a request and the backlog is not empty.
C7_Witness ==
    /\ call.op = "add_response"
    /\ call.arg \notin DOMAIN playwright_to_logged
    /\ request_backlog # <<>>
    /\ \E i \in Range(interactions) : inter[i].requests # <<>>
    /\ ~raised

StrictlyIncreasing(s) == \A k \in 1..(Len(s) - 1) : s[k] < s[k + 1]

\* C8 (as claimed): in a capture session each Interaction's requests list and
\* responses list are strictly ordered by observation timestamp.
C8_Claim ==
    \A i \in DOMAIN inter :
        /\ StrictlyIncreasing([k \in DOMAIN inter[i].requests |->
                                  Ts(inter[i].requests[k])])
        /\ StrictlyIncreasing([k \in DOMAIN inter[i].responses |->
                                  inter[i].responses[k].timestamp])

\* C9: a response recorded while its request has no attributed interaction is
\* attached to no Interaction, then or in any later state.
C9_UnsurfacedStaysUnattached ==
    \A u \in unsurfaced : \A i \in DOMAIN inter :
        \A k \in DOMAIN inter[i].responses : inter[i].responses[k].id # u.id

\* C9 witness: the request of such a response has since been attributed by a
\* sweep, and a later response to it is attached.
C9_Witness ==
    \E u \in unsurfaced :
        /\ u.request \in DOMAIN request_to_interaction
        /\ \E k \in DOMAIN inter[request_to_interaction[u.request]].responses :
              inter[request_to_interaction[u.request]].responses[k].request
                = u.request

\* C10: a request leaves the backlog only when a record_interaction sweep
\* attributes it; record_request and record_response remove no backlog entry;
\* a backlogged request at or beyond the look-back window of the interaction
\* being recorded, or not write-type, stays in the backlog.
C10_BacklogNeverPurged ==
    [][/\ \A r \in Range(request_backlog) :
            r \notin Range(request_backlog') =>
              /\ call'.op = "log_interaction"
              /\ r \in DOMAIN request_to_interaction'
              /\ request_to_interaction'[r] = call'.arg
              /\ r \in Range(inter'[call'.arg].requests)
       /\ call'.op \in {"add_request", "add_response"} =>
            SubSeq(request_backlog', 1, Len(request_backlog)) = request_backlog
       /\ call'.op = "log_interaction" =>
            \A r \in Range(request_backlog) :
              (~IsPost(r) \/ Ts(r) <= inter'[call'.arg].timestamp - LOOKBACK_WINDOW)
                => r \in Range(request_backlog')
      ]_vars

\* C10 witness: an interaction was just recorded and a POST observed more
\* than 1.0 s before it is still in the backlog, as it was before.
C10_Witness ==
    /\ call.op = "log_interaction"
    /\ Len(interactions) >= 2
    /\ \E r \in Range(request_backlog) :
          /\ IsPost(r)
          /\ \A i \in Range(interactions) : Ts(r) < Ti(i) - LOOKBACK_WINDOW

\* C11: record_request registers the raw-handle -> request mapping for every
\* request, whatever its method and whether it is attributed or backlogged;
\* so a record_response for a registered raw request r builds one response
\* joined to r, and appends it exactly once to the responses of the
\* interaction r is attributed to at that moment (to none if r has none).
C11_RawMappingAlwaysRegistered ==
    /\ [](\A r \in DOMAIN reqs :
            /\ reqs[r].raw \in DOMAIN playwright_to_logged
            /\ playwright_to_logged[reqs[r].raw] = r)
    /\ [][(call'.op = "add_response"
             /\ call'.arg \in DOMAIN playwright_to_logged) =>
            LET r == playwright_to_logged[call'.arg] IN
              /\ nresp' = nresp + 1
              /\ IF r \in DOMAIN request_to_interaction
                 THEN inter' = [inter EXCEPT
                                  ![request_to_interaction[r]].responses =
                                      Append(@, [id |-> nresp',
                                                 timestamp |-> now',
                                                 request |-> r])]
                 ELSE inter' = inter
       ]_vars

\* C11 witness: a response was just appended to the interaction of its
\* request while a GET waits in the backlog, registered all the same.
C11_Witness ==
    /\ call.op = "add_response"
    /\ call.arg \in DOMAIN playwright_to_logged
    /\ playwright_to_logged[call.arg] \in DOMAIN request_to_interaction
    /\ LET i == request_to_interaction[playwright_to_logged[call.arg]]
       IN  /\ inter[i].responses # <<>>
           /\ Last(inter[i].responses).id = nresp
           /\ Last(inter[i].responses).request = playwright_to_logged[call.arg]
    /\ \E b \in Range(request_backlog) :
          ~IsPost(b) /\ playwright_to_logged[reqs[b].raw] = b

\* The Pages whose interactions list holds Interaction i.
PagesHolding(i) == {p \in DOMAIN pageobjs : i \in Range(pageobjs[p].interactions)}

\* C12: to_json writes, for each Page with N interactions, exactly N
\* interaction entries in the order of the Page's list, the entry of an
\* interaction holding R requests having request_count = R, and
\* response_count the length of its responses list.
C12_ToJsonCounts ==
    [][(session = "waiting" /\ session' = "returned") =>
         /\ DOMAIN json' = DOMAIN site'
         /\ \A url \in DOMAIN site' :
              LET page == pageobjs'[site'[url]]
                  entries == json'[url].interactions
              IN  /\ Len(entries) = Len(page.interactions)
                  /\ \A k \in DOMAIN page.interactions :
                       LET i == inter'[page.interactions[k]] IN
                         /\ entries[k].timestamp = i.timestamp
                         /\ entries[k].interaction_screenshot =
                              i.interaction_screenshot
                         /\ entries[k].request_count = Len(i.requests)
                         /\ entries[k].response_count = Len(i.responses)
      ]_vars

\* C12 witness: the written Site has a Page with two interactions, the
\* first with requests and the second with none.
C12_Witness ==
    /\ session = "returned"
    /\ \E url \in DOMAIN json :
          /\ Len(json[url].interactions) = 2
          /\ json[url].interactions[1].request_count > 0
          /\ json[url].interactions[2].request_count = 0

\* A step that runs an on_frame_navigated task.
NavigateStep ==
    /\ ready # <<>> /\ Head(ready).kind = "navigate"
    /\ ready' = Tail(ready)

\* C13: the Site is append-only and keyed by URL: a main-frame navigation
\* to a URL not in the Site creates exactly one Page for it, a navigation to
\* a URL in the Site re-uses its Page object (interactions kept, no second
\* Page), and no step removes or replaces a Page.
C13_SiteAppendOnly ==
    /\ [](/\ Len(pageobjs) = Cardinality(DOMAIN site)
          /\ \A url \in DOMAIN site : pageobjs[site[url]].url = url)
    /\ [][/\ \A url \in DOMAIN site :
               url \in DOMAIN site' /\ site'[url] = site[url]
          /\ \A p \in DOMAIN pageobjs :
               /\ p \in DOMAIN pageobjs'
               /\ pageobjs'[p].url = pageobjs[p].url
               /\ Len(pageobjs'[p].interactions) >= Len(pageobjs[p].interactions)
               /\ SubSeq(pageobjs'[p].interactions, 1,
                         Len(pageobjs[p].interactions)) = pageobjs[p].interactions
          /\ IF NavigateStep /\ Head(ready).main_frame
                /\ Head(ready).arg \notin DOMAIN site
             THEN /\ pageobjs' = Append(pageobjs, NewPage(Head(ready).arg))
                  /\ site' = Put(site, Head(ready).arg, Len(pageobjs) + 1)
             ELSE /\ site' = site
                  /\ Len(pageobjs') = Len(pageobjs)
          /\ (NavigateStep /\ Head(ready).main_frame
                /\ Head(ready).arg \in DOMAIN site) =>
               /\ current_page' = site[Head(ready).arg]
               /\ pageobjs' = pageobjs
       ]_vars

\* C13 witness: the user navigated to a second page, made a gesture there
\* and navigated back to the start page, whose Page is current again.
C13_Witness ==
    /\ call.op = "on_frame_navigated"
    /\ Len(pageobjs) = 2
    /\ pageobjs[2].interactions # <<>>
    /\ current_page = site[START_URL]

\* C14: when manual_workflow returns the Site the listeners for
\* framenavigated, request and response are all removed, so from then on no
\* handler task for these three kinds of event is created.
C14_ListenersRemovedAtReturn ==
    /\ [](session = "returned" => listeners \cap AllListeners = {})
    /\ [][(session = "returned" /\ Len(ready') > Len(ready)) =>
            Last(ready').kind = "gesture"]_vars

\* C14 witness: after the return the driver emitted an event for which no
\* handler ran, while a task created before the return is still queued.
C14_Witness ==
    /\ session = "returned"
    /\ call.op = "not_dispatched"
    /\ ready # <<>>

\* A step in which a handler task ends with an exception.
RaiseStep ==
    /\ call'.op = "raise"
    /\ \/ (ready # <<>> /\ ready' = Tail(ready))
       \/ (pending' # pending /\ pending' \subseteq pending)

\* C15: an exception inside a navigation, request, response or gesture
\* handler does not reach the capture session: the session keeps waiting
\* with its listeners registered, the queued tasks stay queued, and the
\* session ends only by returning the Site.
C15_HandlerExceptionContained ==
    /\ [](session \in {"waiting", "returned"})
    /\ [](session = "waiting" => listeners = AllListeners)
    /\ [][RaiseStep =>
            /\ session' = session
            /\ listeners' = listeners
            /\ (ready' = ready \/ (ready # <<>> /\ ready' = Tail(ready)))
            /\ pending' \subseteq pending
            /\ UNCHANGED <<inter, interactions>>
       ]_vars

\* C15 witness: a gesture handler ended with an exception (its Interaction
\* is in no list), a later gesture was recorded, and the Site was returned.
C15_Witness ==
    /\ session = "returned"
    /\ json # <<>>
    /\ \E i, j \in DOMAIN inter :
          /\ i < j
          /\ i \notin Range(interactions)
          /\ \A g \in pending : g.interaction # i
          /\ j \in Range(interactions)

\* C16: the gesture handler appends the Interaction to the current Page and
\* feeds it to the correlator only after the wait and the screenshot, so
\* every Interaction in the correlator's list is, exactly once, in exactly
\* one Page's interactions list and has its screenshot path set; an
\* Interaction whose handler is still waiting is in neither.
C16_LoggedInteractionOnOnePage ==
    /\ \A i \in Range(interactions) :
          /\ Cardinality(PagesHolding(i)) = 1
          /\ \A p \in PagesHolding(i) :
                Cardinality({k \in DOMAIN pageobjs[p].interactions :
                               pageobjs[p].interactions[k] = i}) = 1
          /\ inter[i].interaction_screenshot # 0
    /\ \A g \in pending :
          /\ g.interaction \notin Range(interactions)
          /\ PagesHolding(g.interaction) = {}

\* C16 witness: two logged interactions, on two different Pages.
C16_Witness ==
    \E i, j \in Range(interactions) :
        /\ i # j
        /\ PagesHolding(i) # PagesHolding(j)
        /\ PagesHolding(i) # {} /\ PagesHolding(j) # {}

\* C17 (as claimed): a gesture whose quiescence wait times out, or whose
\* screenshot fails, still has its Interaction appended to the current Page
\* and fed to the correlator: every Interaction whose handler is no longer
\* suspended is on a Page and in the correlator's list.
C17_Claim ==
    \A i \in DOMAIN inter :
        \/ \E g \in pending : g.interaction = i
        \/ (i \in Range(interactions) /\ PagesHolding(i) # {})

\* C18: the session feeds the correlator only POST traffic: every request
\* the correlator knows, every registered raw request and every Request or
\* Response in a Page's Interaction has method POST.
C18_OnlyPostRecorded ==
    /\ \A r \in DOMAIN reqs : IsPost(r)
    /\ \A raw \in DOMAIN playwright_to_logged : raws[raw].method = "POST"
    /\ \A p \in DOMAIN pageobjs : \A i \in Range(pageobjs[p].interactions) :
          /\ \A r \in Range(inter[i].requests) : IsPost(r)
          /\ \A k \in DOMAIN inter[i].responses :
                IsPost(inter[i].responses[k].request)

\* C18 witness: the handlers of a GET request and of its response ran after
\* a gesture was recorded on a Page, inside the forward window.
C18_Witness ==
    /\ call.op = "on_response"
    /\ raws[call.arg].method = "GET"
    /\ \E p \in DOMAIN pageobjs : pageobjs[p].interactions # <<>>
    /\ interactions # <<>>
    /\ now - Ti(Last(interactions)) < FORWARD_WINDOW

\* A step that ends the iteration for page p without reaching the end of
\* the loop body.
Skips(p) ==
    /\ replay.idx = p /\ replay.pc # "done"
    /\ replay'.outcome[p] \in {"navigation_failed", "content_failed", "exception"}

\* C19: automated_workflow begins exactly one iteration for every Page and
\* terminates; a load state that is not reached does not stop the
\* processing of the page; a failed navigation, a failed content() or any
\* other exception ends the iteration of that page only, with its html
\* unset, and the loop goes on with the next page.
C19_ReplayVisitsEveryPageOnce ==
    /\ <>(replay.pc = "done")
    /\ [](\A p \in DOMAIN replay.pages : replay.visits[p] <= 1)
    /\ [](replay.pc = "done" =>
            \A p \in DOMAIN replay.pages :
                /\ replay.visits[p] = 1
                /\ replay.outcome[p] # "none"
                /\ replay.html[p] <=> (replay.outcome[p] = "ok"))
    /\ [][\A p \in DOMAIN replay.pages :
            /\ (replay.idx = p /\ replay.pc = "load") =>
                 (replay'.idx = p /\ replay'.pc = "content")
            /\ Skips(p) =>
                 /\ replay'.html = replay.html
                 /\ ~replay.html[p]
                 /\ IF p < Len(replay.pages)
                    THEN replay'.idx = p + 1 /\ replay'.pc = "goto"
                    ELSE replay'.pc = "done"
            /\ replay.idx # p =>
                 /\ replay'.html[p] = replay.html[p]
                 /\ replay'.outcome[p] = replay.outcome[p]
       ]_vars

\* C19 witness: the loop is over; the first page failed to navigate, the
\* second was processed although its network never went idle, the last
\* failed in content().
C19_Witness ==
    /\ replay.pc = "done"
    /\ Len(replay.pages) = MaxPages
    /\ replay.outcome[1] = "navigation_failed"
    /\ replay.load[2] = "idle_timeout" /\ replay.html[2]
    /\ replay.outcome[MaxPages] = "content_failed"

\* The document a stage starts from: page.html for initialize_html, the
\* previous stage's file for the others.
PreviousHtml(k, p) == clone.files[<<k - 1, p>>]

\* The response of the iteration just run cannot be parsed: no ```html
\* block, invalid JSON, or JSON without the "html" key.
Unparseable(l) ==
    IF l.stage = 2
    THEN l.response.json = "invalid"
           \/ (l.response.json = "object" /\ "html" \notin l.response.keys)
    ELSE ~HasHtmlBlock(l.response)

\* C20 (as claimed): in each of the four stages, when the model's response
\* cannot be parsed, the stage's output file holds the previous stage's
\* HTML unmodified.
C20_Claim ==
    [][(clone'.last.ran
          /\ <<clone'.stage, clone'.idx>> # <<clone.stage, clone.idx>>
          /\ Unparseable(clone'.last)) =>
         clone'.files[<<clone.stage, clone.idx>>]
            = PreviousHtml(clone.stage, clone.idx)
      ]_vars

\* C25: in every state between handler steps, every request passed to
\* record_request is either in the backlog or in the requests list of
\* exactly one Interaction, never in both, and request_to_interaction maps
\* the request to interaction i exactly when the request is in i.requests.
C25_BookkeepingConsistent ==
    \A r \in DOMAIN reqs :
        /\ (r \in Range(request_backlog)) # (Holders(r) # {})
        /\ Cardinality(Holders(r)) <= 1
        /\ Cardinality({k \in DOMAIN request_backlog : request_backlog[k] = r}) <= 1
        /\ \A i \in DOMAIN inter :
              (r \in DOMAIN request_to_interaction
                 /\ request_to_interaction[r] = i) <=> (i \in Holders(r))

\* C25 witness: a request observed long before the first gesture is still
\* in the backlog and a later one is attributed to that gesture.
C25_Witness ==
    /\ request_backlog # <<>>
    /\ \E r \in DOMAIN reqs : Holders(r) # {}

\* Number of times request r is in the requests list of Interaction i.
Occurrences(i, r) ==
    Cardinality({k \in DOMAIN inter[i].requests : inter[i].requests[k] = r})

\* C26 (as claimed): in a capture session a POST request is at most once in
\* the requests list of the Interaction it is attributed to.
C26_Claim ==
    \A i \in DOMAIN inter : \A r \in DOMAIN reqs : Occurrences(i, r) <= 1

\* C27 (as claimed): the last element of the correlator's interaction list
\* has the greatest gesture timestamp of the list.
C27_Claim ==
    \A k \in DOMAIN interactions :
        Ti(interactions[k]) <= Ti(Last(interactions))

\* C28 (as claimed): a gesture handler that finishes appends its Interaction
\* to the Page that was current when the handler took the gesture's
\* timestamp.
C28_Claim ==
    [][\A g \in pending :
         (g \notin pending'
            /\ g.interaction \in Range(interactions')
            /\ g.interaction \notin Range(interactions)) =>
           g.interaction \in Range(pageobjs'[g.origin].interactions)
      ]_vars

\* A step that runs the on_response task of a POST response.
PostResponseStep ==
    /\ ready # <<>> /\ Head(ready).kind = "response"
    /\ raws[Head(ready).arg].method = "POST"
    /\ ready' = Tail(ready)

NeedsKey == <<"", "v1", "v2", "v3">>

\* C23: for every page site.construction holds 'v4' only with 'v3', 'v3'
\* only with 'v2' and 'functionality', 'v2' only with 'v1'; a stage skips a
\* page that lacks the previous stage's key, changing nothing, and an
\* iteration for one page leaves the keys and files of the others alone.
C23_StagesChain ==
    /\ [](\A p \in DOMAIN clone.pages :
            LET K == clone.construction[p] IN
              /\ "v4" \in K => "v3" \in K
              /\ "v3" \in K => {"v2", "functionality"} \subseteq K
              /\ "v2" \in K => "v1" \in K
              /\ \A k \in 1..4 : <<"v1", "v2", "v3", "v4">>[k] \in K =>
                                   <<k, p>> \in DOMAIN clone.files)
    /\ [][clone.stage \in 1..4 =>
            /\ \A q \in DOMAIN clone.pages : q # clone.idx =>
                  /\ clone'.construction[q] = clone.construction[q]
                  /\ \A k \in 0..4 : <<k, q>> \in DOMAIN clone.files =>
                        clone'.files[<<k, q>>] = clone.files[<<k, q>>]
            /\ (clone.stage > 1
                  /\ NeedsKey[clone.stage] \notin clone.construction[clone.idx]) =>
                 /\ clone'.construction = clone.construction
                 /\ clone'.files = clone.files
       ]_vars

\* C23 witness: the workflow is over; the first page raised in its second
\* stage and has only 'v1', the second page went through all four stages.
C23_Witness ==
    /\ clone.stage = 5
    /\ Len(clone.pages) = 2
    /\ clone.construction[1] = {"v1"}
    /\ clone.construction[2] = {"v1", "v2", "functionality", "v3", "v4"}

\* The statements of step 2 that run before automated_workflow is called.
ReplaySetup == {"launch_persistent_context", "new_page"}

Attempted(stage, p) ==
    \E a \in inject.attempted : a[1] = stage /\ a[2] = p

C21_Claim ==
    doc # <<>> =>
      \A k \in 2..Len(doc.counts) :
        /\ doc.counts[k] = 0
        /\ (IF k < Len(doc.counts) THEN doc.before[k + 1] ELSE doc.soup)
             = doc.before[k]

\* C30: two pages of a Site (which have different URLs) never have the
\* same directory, so no two pages share a captured-HTML path and the file
\* at a replayed page's path holds the HTML captured from that page.
C30_Claim ==
    dirs # <<>> =>
      /\ \A p, q \in DOMAIN dirs.pages :
           p # q => /\ dirs.pages[p].dir # dirs.pages[q].dir
                    /\ (dirs.pages[p].html # <<>> =>
                          dirs.pages[p].html # dirs.pages[q].html)
      /\ \A p \in DOMAIN dirs.pages :
           dirs.pages[p].html # <<>> =>
             [path |-> dirs.pages[p].html, from |-> dirs.pages[p].url] \in dirs.written

====
